---- MODULE Spec2Model ----
(***************************************************************************)
(* Model of sspatcher.py: the Shapeshifter ROM image codec (name region,   *)
(* data region, run-length sanity check), the wavetable directory loader,  *)
(* the name sanitizer, the patch / extract entry points and the export of  *)
(* the two regions as Intel HEX files.                                     *)
(*                                                                         *)
(* Text is a sequence of Unicode code points, binary data a sequence of    *)
(* bytes (0..255).  A file is its byte sequence; a directory is a function *)
(* from file names to file contents.                                       *)
(*                                                                         *)
(* The image layout is scaled down: NUM_WT and WT_DATA_LENGTH are small,   *)
(* and the offsets and image sizes are derived from them so that the       *)
(* order of the regions of the source is kept: the name region lies        *)
(* strictly before the data region with a gap, and the data region ends    *)
(* exactly at the end of the short image (0x100000 + 128 * 8192 =          *)
(* 0x200000 in the source).  The name record format (8 = 2 + 6 bytes) is   *)
(* kept as it is.                                                          *)
(***************************************************************************)
EXTENDS Integers, Sequences, FiniteSets, TLC

VARIABLES
    image,      \* the ROM image file: a sequence of bytes
    srcdir,     \* the wavetable directory: [exists, files]
    dest,       \* the extraction destination: [exists, files]
    wavs,       \* the "test_wavs" directory extract writes .wav files to
    input,      \* the string handed to sanitize_name
    hexfiles,   \* the .hex files derive_names writes next to the directory
    ret         \* outcome of the last operation: [op, kind, ...]

vars == <<image, srcdir, dest, wavs, input, hexfiles, ret>>

(***************************************************************************)
(* Bounds of the model.                                                    *)
(***************************************************************************)
NUM_WT == 2             \* 128 in the source
WT_DATA_LENGTH == 12    \* 1024 * 8 in the source
MaxNameLen == 7         \* longest string handed to sanitize_name

(***************************************************************************)
(* Constants describing the image file and the wavetable format.           *)
(***************************************************************************)
WT_NAME_LENGTH == 8
WT_NAME_PREFIX == <<32, 32>>
WT_USER_NAME_LENGTH == WT_NAME_LENGTH - Len(WT_NAME_PREFIX)
WT_DATA_OFFSET == NUM_WT * WT_DATA_LENGTH
WT_NAME_OFFSET == WT_DATA_OFFSET - NUM_WT * (WT_NAME_LENGTH + 1)
IMAGE_SIZE_SHORT == WT_DATA_OFFSET + NUM_WT * WT_DATA_LENGTH
IMAGE_SIZE_LONG == 4 * IMAGE_SIZE_SHORT
RUN_LIMIT == WT_DATA_LENGTH \div 4

\* string.ascii_letters + string.digits + ' '
ALLOWED_CHARS == (97..122) \cup (65..90) \cup (48..57) \cup {32}

\* the characters str.strip() and int() treat as whitespace
WHITESPACE == (9..13) \cup (28..32) \cup {133, 160}

(***************************************************************************)
(* Sequence helpers.                                                       *)
(***************************************************************************)
Min(a, b) == IF a < b THEN a ELSE b
Max(a, b) == IF a > b THEN a ELSE b

\* s[-n:]
LastN(s, n) == IF Len(s) <= n THEN s ELSE SubSeq(s, Len(s) - n + 1, Len(s))

\* s[n:]
DropN(s, n) == IF Len(s) <= n THEN <<>> ELSE SubSeq(s, n + 1, Len(s))

Repeat(x, n) == [i \in 1..n |-> x]

RECURSIVE lstrip(_)
lstrip(s) ==
    IF s # <<>> /\ Head(s) \in WHITESPACE THEN lstrip(Tail(s)) ELSE s

RECURSIVE rstrip(_)
rstrip(s) ==
    IF s # <<>> /\ s[Len(s)] \in WHITESPACE
    THEN rstrip(SubSeq(s, 1, Len(s) - 1)) ELSE s

\* str.strip()
strip(s) == rstrip(lstrip(s))

\* str.rjust(w)
rjust(s, w) == IF Len(s) >= w THEN s ELSE Repeat(32, w - Len(s)) \o s

\* bytes.startswith / str.startswith
startswith(s, p) == Len(s) >= Len(p) /\ SubSeq(s, 1, Len(p)) = p

\* UTF-8 encoding of one code point
utf8(c) ==
    IF c < 128 THEN <<c>>
    ELSE IF c < 2048 THEN <<192 + (c \div 64), 128 + (c % 64)>>
    ELSE IF c < 65536
    THEN <<224 + (c \div 4096), 128 + ((c \div 64) % 64), 128 + (c % 64)>>
    ELSE <<240 + (c \div 262144), 128 + ((c \div 4096) % 64),
           128 + ((c \div 64) % 64), 128 + (c % 64)>>

\* str.encode()
RECURSIVE encode(_)
encode(s) == IF s = <<>> THEN <<>> ELSE utf8(Head(s)) \o encode(Tail(s))

\* index of the first element of s that is not in S (0 when there is none)
RECURSIVE FirstNotIn(_, _, _)
FirstNotIn(s, S, i) ==
    IF i > Len(s) THEN 0
    ELSE IF s[i] \notin S THEN i ELSE FirstNotIn(s, S, i + 1)

(***************************************************************************)
(* sanitize_name                                                           *)
(***************************************************************************)
\* mutant: strips the name whatever its length
TruncatedAlwaysStrip(name) == LastN(strip(name), 6)

\* mutant: keeps the first six characters of a long name
TruncatedFirstSix(name) ==
    IF Len(name) > WT_USER_NAME_LENGTH
    THEN SubSeq(strip(name), 1, Min(6, Len(strip(name)))) ELSE name

\* the name after the truncation step (lines 204-208)
Truncated(name) ==
    IF Len(name) > WT_USER_NAME_LENGTH THEN LastN(strip(name), 6) ELSE name

\* the name after the padding step (lines 210-211)
Padded(name) ==
    IF Len(name) < WT_USER_NAME_LENGTH THEN rjust(name, 6) ELSE name

sanitize_name(name) ==
    LET new_name == Padded(Truncated(name))
        bad == FirstNotIn(new_name, ALLOWED_CHARS, 1)
    IN  IF bad # 0
        THEN [kind |-> "InvalidCharacterError", name |-> new_name,
              ch |-> new_name[bad]]
        ELSE [kind |-> "ok", value |-> encode(new_name)]

(***************************************************************************)
(* Specification of the name sanitizer alone: a string is typed in one     *)
(* character at a time and handed to sanitize_name.                        *)
(***************************************************************************)
\* space, tab, a letter, a digit, a character that is never allowed
CharPool == {32, 9, 97, 55, 45}

NoDir == [exists |-> FALSE, files |-> <<>>]
Idle == [op |-> "none", kind |-> "none"]

InitSanitize ==
    /\ image = <<>>
    /\ srcdir = NoDir
    /\ dest = NoDir
    /\ wavs = NoDir
    /\ input = <<>>
    /\ hexfiles = <<>>
    /\ ret = Idle

TypeChar ==
    /\ Len(input) < MaxNameLen
    /\ \E c \in CharPool : input' = Append(input, c)
    /\ ret' = Idle
    /\ UNCHANGED <<image, srcdir, dest, wavs, hexfiles>>

SanitizeName ==
    /\ ret' = [op |-> "sanitize_name"] @@ sanitize_name(input)
    /\ UNCHANGED <<image, srcdir, dest, wavs, input, hexfiles>>

NextSanitize == TypeChar \/ SanitizeName

SpecSanitize == InitSanitize /\ [][NextSanitize]_vars

(***************************************************************************)
(* Properties of sanitize_name.  Core(s) is s without its leading and      *)
(* trailing whitespace, stated by positions rather than by recursion.      *)
(***************************************************************************)
Core(s) ==
    LET solid == {i \in 1..Len(s) : s[i] \notin WHITESPACE}
    IN  IF solid = {} THEN <<>>
        ELSE SubSeq(s, CHOOSE i \in solid : \A j \in solid : i <= j,
                       CHOOSE i \in solid : \A j \in solid : i >= j)

\* the characters of the input that survive into the name
Kept(s) == IF Len(s) > 6 THEN LastN(Core(s), 6) ELSE s

OnlyAllowed(s) == \A i \in 1..Len(s) : s[i] \in ALLOWED_CHARS

\* C6: sanitize_name fails with InvalidCharacterError exactly when the
\* resulting name (the input, stripped and cut to its last 6 characters
\* when it is longer than 6, then left-padded with spaces) holds a character
\* that is not an ASCII letter, a digit or a space, and the error names such
\* a character; every single-character input outside the allowed set fails,
\* and every input made only of allowed characters is accepted.
C6_InvalidCharacterIff ==
    ret.op = "sanitize_name" =>
        /\ ret.kind \in {"ok", "InvalidCharacterError"}
        /\ (ret.kind = "InvalidCharacterError") <=> ~OnlyAllowed(Kept(input))
        /\ ret.kind = "InvalidCharacterError" =>
                /\ ret.ch \notin ALLOWED_CHARS
                /\ \E i \in 1..Len(input) : input[i] = ret.ch
        /\ (Len(input) = 1 /\ input[1] \notin ALLOWED_CHARS) =>
                ret.kind = "InvalidCharacterError"
        /\ OnlyAllowed(input) => ret.kind = "ok"

\* a long input whose stripped-away tab is forgiven but whose '-' is not
C6_Witness ==
    /\ ret.op = "sanitize_name"
    /\ ret.kind = "InvalidCharacterError"
    /\ Len(input) = 7
    /\ input[1] = 9
    /\ ret.ch = 45

\* C7: for an input over the allowed characters sanitize_name returns
\* exactly 6 bytes: the last 6 characters of the stripped input when the
\* stripped input is longer than 6, and otherwise the name right-justified,
\* padded on the left with spaces (the input itself when it has at most 6
\* characters, so that a 6-character name is returned unchanged, and the
\* stripped input when the input was longer).
C7_SixBytes ==
    (ret.op = "sanitize_name" /\ OnlyAllowed(input)) =>
        /\ ret.kind = "ok"
        /\ Len(ret.value) = 6
        /\ Len(Core(input)) > 6 =>
                ret.value = SubSeq(Core(input), Len(Core(input)) - 5,
                                   Len(Core(input)))
        /\ Len(Core(input)) <= 6 =>
                LET body == IF Len(input) <= 6 THEN input ELSE Core(input)
                    pad == 6 - Len(body)
                IN  /\ \A i \in 1..pad : ret.value[i] = 32
                    /\ \A i \in 1..Len(body) : ret.value[pad + i] = body[i]
        /\ Len(input) = 6 => ret.value = input
        /\ input \in {<<>>, <<32>>} => ret.value = <<32, 32, 32, 32, 32, 32>>

\* a 7-character name with no surrounding blanks, cut to its last 6
C7_Witness ==
    /\ ret.op = "sanitize_name"
    /\ ret.kind = "ok"
    /\ input = <<55, 97, 97, 32, 97, 55, 97>>
    /\ ret.value = <<97, 97, 32, 97, 55, 97>>

(***************************************************************************)
(* File access.                                                            *)
(***************************************************************************)
\* f.seek(off) followed by f.read(n): short at the end of the file
read(f, off, n) ==
    IF off >= Len(f) THEN <<>> ELSE SubSeq(f, off + 1, Min(off + n, Len(f)))

\* f.seek(off) followed by f.write(data) on a file opened 'r+b'
write(f, off, data) ==
    [i \in 1..Max(Len(f), off + Len(data)) |->
        IF i > off /\ i <= off + Len(data) THEN data[i - off]
        ELSE IF i <= Len(f) THEN f[i] ELSE 0]

\* [s[i:i + n] for i in range(0, total, n)]
chunks(s, n, total) ==
    [k \in 1..((total + n - 1) \div n) |->
        SubSeq(s, (k - 1) * n + 1, Min(k * n, Len(s)))]

\* sep.join(parts)
RECURSIVE join(_, _)
join(sep, parts) ==
    IF parts = <<>> THEN <<>>
    ELSE IF Len(parts) = 1 THEN parts[1]
    ELSE parts[1] \o sep \o join(sep, Tail(parts))

\* b''.join(parts)
RECURSIVE concat(_)
concat(parts) ==
    IF parts = <<>> THEN <<>> ELSE Head(parts) \o concat(Tail(parts))

(***************************************************************************)
(* read_wt_data                                                            *)
(***************************************************************************)
\* length of the group itertools.groupby starts at position i
RECURSIVE RunLength(_, _)
RunLength(s, i) ==
    IF i < Len(s) /\ s[i + 1] = s[i] THEN 1 + RunLength(s, i + 1) ELSE 1

\* itertools.groupby(s) from position i on: <<byte, length>> per group
RECURSIVE groupby(_, _)
groupby(s, i) ==
    IF i > Len(s) THEN <<>>
    ELSE LET n == RunLength(s, i)
         IN  <<<<s[i], n>>>> \o groupby(s, i + n)

\* mutant: a run as long as the limit is already refused
TooLongOrEqual(length) == length >= RUN_LIMIT

\* if length > RUN_LIMIT
TooLong(length) == length > RUN_LIMIT

\* index of the first group the loop raises on (0 when it raises on none)
RECURSIVE FirstTooLong(_, _)
FirstTooLong(runs, k) ==
    IF k > Len(runs) THEN 0
    ELSE IF TooLong(runs[k][2]) THEN k ELSE FirstTooLong(runs, k + 1)

\* mutant: the error carries the byte value where the run length belongs
read_wt_data_at_swapped(f, offset) ==
    LET data_block_length == WT_DATA_LENGTH * NUM_WT
        wt_data_block == read(f, offset, data_block_length)
        runs == groupby(wt_data_block, 1)
        k == FirstTooLong(runs, 1)
    IN  IF Len(wt_data_block) # data_block_length
        THEN [kind |-> "TruncatedReadError", expected |-> data_block_length]
        ELSE IF k # 0
        THEN [kind |-> "SuspiciousDataError", length |-> runs[k][1],
              byte |-> runs[k][2]]
        ELSE [kind |-> "ok",
              value |-> chunks(wt_data_block, WT_DATA_LENGTH, data_block_length)]

\* read_wt_data with the module-level WT_DATA_OFFSET set to offset
read_wt_data_at(f, offset) ==
    LET data_block_length == WT_DATA_LENGTH * NUM_WT
        wt_data_block == read(f, offset, data_block_length)
        runs == groupby(wt_data_block, 1)
        k == FirstTooLong(runs, 1)
    IN  IF Len(wt_data_block) # data_block_length
        THEN [kind |-> "TruncatedReadError", expected |-> data_block_length]
        ELSE IF k # 0
        THEN [kind |-> "SuspiciousDataError", length |-> runs[k][2],
              byte |-> runs[k][1]]
        ELSE [kind |-> "ok",
              value |-> chunks(wt_data_block, WT_DATA_LENGTH, data_block_length)]

read_wt_data(f) == read_wt_data_at(f, WT_DATA_OFFSET)

(***************************************************************************)
(* read_wt_names                                                           *)
(***************************************************************************)
\* mutant: only the first byte of the prefix is looked at
HasPrefixFirstByte(name) == name # <<>> /\ name[1] = WT_NAME_PREFIX[1]

\* name.startswith(WT_NAME_PREFIX)
HasPrefix(name) == startswith(name, WT_NAME_PREFIX)

\* index of the first name without the prefix (0 when there is none)
RECURSIVE FirstUnprefixed(_, _)
FirstUnprefixed(names, k) ==
    IF k > Len(names) THEN 0
    ELSE IF ~HasPrefix(names[k]) THEN k ELSE FirstUnprefixed(names, k + 1)

read_wt_names(f) ==
    LET name_block_length == WT_NAME_LENGTH * NUM_WT
        wt_name_block == read(f, WT_NAME_OFFSET, name_block_length)
        wt_names == chunks(wt_name_block, WT_NAME_LENGTH, name_block_length)
        k == FirstUnprefixed(wt_names, 1)
    IN  IF Len(wt_name_block) # name_block_length
        THEN [kind |-> "TruncatedReadError", expected |-> name_block_length]
        ELSE IF k # 0
        THEN [kind |-> "FormatError", name |-> wt_names[k]]
        ELSE [kind |-> "ok",
              value |-> [i \in 1..Len(wt_names) |->
                            DropN(wt_names[i], Len(WT_NAME_PREFIX))]]

(***************************************************************************)
(* check_image_size                                                        *)
(***************************************************************************)
\* mutant: only the long image is accepted
check_image_size_long_only(f) ==
    IF Len(f) # IMAGE_SIZE_LONG
    THEN [kind |-> "BadImageSizeError", got |-> Len(f),
          expected |-> <<IMAGE_SIZE_LONG>>]
    ELSE [kind |-> "ok"]

check_image_size(f) ==
    IF Len(f) # IMAGE_SIZE_SHORT /\ Len(f) # IMAGE_SIZE_LONG
    THEN [kind |-> "BadImageSizeError", got |-> Len(f),
          expected |-> <<IMAGE_SIZE_SHORT, IMAGE_SIZE_LONG>>]
    ELSE [kind |-> "ok"]

\* the bytes patch writes at WT_NAME_OFFSET (line 231)
name_data(names) == WT_NAME_PREFIX \o join(WT_NAME_PREFIX, names)

\* the bytes patch writes at WT_DATA_OFFSET (line 235)
wt_data(wavetables) == concat(wavetables)

(***************************************************************************)
(* Images the reader is tried on.                                          *)
(***************************************************************************)
\* contents of one data block: byte p of the data region, by kind of block
BlockByte(kind, i, p) ==
    LET noise == 1 + (p % 200)
    IN  CASE kind = "noise" -> noise
          [] kind = "flat" -> 0
          [] kind = "run" -> IF i >= 2 /\ i <= RUN_LIMIT + 1 THEN 0 ELSE noise
          [] kind = "longrun" -> IF i >= 2 /\ i <= RUN_LIMIT + 2 THEN 0 ELSE noise
          [] kind = "tail" -> IF i > WT_DATA_LENGTH - RUN_LIMIT THEN 0 ELSE noise
          [] kind = "head" -> IF i = 1 THEN 0 ELSE noise
          [] kind = "longer" -> IF i <= RUN_LIMIT + 2 THEN 255 ELSE noise

BlockKinds == {"noise", "flat", "run", "longrun", "tail", "head", "longer"}

\* the data region made of the given kinds of blocks
DataRegion(kinds) ==
    [p \in 1..(Len(kinds) * WT_DATA_LENGTH) |->
        LET k == ((p - 1) \div WT_DATA_LENGTH) + 1
            i == ((p - 1) % WT_DATA_LENGTH) + 1
        IN  BlockByte(kinds[k], i, p)]

\* 8-byte name records: four with the prefix, two without
RecordPool ==
    { <<32, 32, 66, 97, 115, 105, 99, 49>>,
      <<32, 32, 32, 32, 76, 70, 79, 49>>,
      <<32, 32, 32, 32, 32, 32, 32, 32>>,
      <<32, 32, 255, 0, 47, 39, 10, 32>>,
      <<32, 66, 97, 115, 105, 99, 49, 32>>,
      <<0, 32, 32, 66, 97, 115, 105, 99>> }

\* the image of the given size holding the name records and data region
MkImage(size, records, data) ==
    LET n == WT_NAME_LENGTH * Len(records)
    IN  [i \in 1..size |->
            IF i > WT_NAME_OFFSET /\ i <= WT_NAME_OFFSET + n
            THEN records[((i - WT_NAME_OFFSET - 1) \div WT_NAME_LENGTH) + 1]
                        [((i - WT_NAME_OFFSET - 1) % WT_NAME_LENGTH) + 1]
            ELSE IF i > WT_DATA_OFFSET /\ i <= WT_DATA_OFFSET + Len(data)
            THEN data[i - WT_DATA_OFFSET]
            ELSE 65 + (i % 5)]

FactoryRecords ==
    [k \in 1..NUM_WT |-> <<32, 32, 119, 116, 32, 32, 32, 48 + k>>]

FactoryData == DataRegion([k \in 1..NUM_WT |-> "noise"])

OddSizes ==
    {0, 1, WT_NAME_OFFSET + 3, WT_DATA_OFFSET + 5, IMAGE_SIZE_SHORT - 1,
     IMAGE_SIZE_SHORT + 1, 2 * IMAGE_SIZE_SHORT, IMAGE_SIZE_LONG - 1,
     IMAGE_SIZE_LONG + 1}

ImagePool ==
    { MkImage(size, records, FactoryData) :
        size \in {IMAGE_SIZE_SHORT, IMAGE_SIZE_LONG},
        records \in [1..NUM_WT -> RecordPool] }
    \cup
    { MkImage(size, FactoryRecords, DataRegion(kinds)) :
        size \in {IMAGE_SIZE_SHORT, IMAGE_SIZE_LONG},
        kinds \in [1..NUM_WT -> BlockKinds] }
    \cup
    { MkImage(size, FactoryRecords, FactoryData) : size \in OddSizes }

(***************************************************************************)
(* Specification of the image reader: one image, read again and again.     *)
(***************************************************************************)
InitImage ==
    /\ image \in ImagePool
    /\ srcdir = NoDir
    /\ dest = NoDir
    /\ wavs = NoDir
    /\ input = <<>>
    /\ hexfiles = <<>>
    /\ ret = Idle

CheckImageSize ==
    /\ ret' = [op |-> "check_image_size"] @@ check_image_size(image)
    /\ UNCHANGED <<image, srcdir, dest, wavs, input, hexfiles>>

ReadNames ==
    /\ ret' = [op |-> "read_wt_names"] @@ read_wt_names(image)
    /\ UNCHANGED <<image, srcdir, dest, wavs, input, hexfiles>>

ReadData ==
    /\ ret' = [op |-> "read_wt_data"] @@ read_wt_data(image)
    /\ UNCHANGED <<image, srcdir, dest, wavs, input, hexfiles>>

\* one round of the loop of the data location test, without its skipping:
\* read_wt_data after sspatcher.WT_DATA_OFFSET = i, for i = 0, 1, ... up to
\* the first short read
ReadDataAt ==
    /\ LET scanning == ret.op = "read_wt_data_at"
           i == IF scanning THEN ret.offset + 1 ELSE 0
       IN  /\ i < IMAGE_SIZE_SHORT
           /\ ~(scanning /\ ret.kind = "TruncatedReadError")
           /\ ret' = [op |-> "read_wt_data_at", offset |-> i]
                     @@ read_wt_data_at(image, i)
    /\ UNCHANGED <<image, srcdir, dest, wavs, input, hexfiles>>

NextImage == CheckImageSize \/ ReadNames \/ ReadData \/ ReadDataAt

SpecImage == InitImage /\ [][NextImage]_vars

(***************************************************************************)
(* Properties of the image reader.                                         *)
(***************************************************************************)
NameRegion(f) ==
    SubSeq(f, WT_NAME_OFFSET + 1, WT_NAME_OFFSET + WT_NAME_LENGTH * NUM_WT)

\* C2: whenever read_wt_names succeeds on an image, the prefix followed by
\* the prefix-joined returned names (the bytes patch writes) is exactly the
\* name region of the image, and NUM_WT names of 6 bytes were returned.
C2_NameRegionRoundTrip ==
    (ret.op = "read_wt_names" /\ ret.kind = "ok") =>
        /\ Len(ret.value) = NUM_WT
        /\ \A k \in 1..NUM_WT : Len(ret.value[k]) = 6
        /\ name_data(ret.value) = NameRegion(image)

\* names were read from an image one of whose names holds arbitrary bytes
C2_Witness ==
    /\ ret.op = "read_wt_names"
    /\ ret.kind = "ok"
    /\ \E k \in 1..NUM_WT : ret.value[k] = <<255, 0, 47, 39, 10, 32>>

\* the maximal runs <<first, last>> of equal bytes of a byte sequence
MaximalRuns(s) ==
    { r \in (1..Len(s)) \X (1..Len(s)) :
        /\ r[1] <= r[2]
        /\ \A k \in r[1]..r[2] : s[k] = s[r[1]]
        /\ r[1] = 1 \/ s[r[1] - 1] # s[r[1]]
        /\ r[2] = Len(s) \/ s[r[2] + 1] # s[r[2]] }

\* C8: when the whole data region can be read, read_wt_data fails with
\* SuspiciousDataError exactly when the region holds a maximal run of one
\* byte value longer than RUN_LIMIT (a run of exactly RUN_LIMIT passes, runs
\* are counted across block boundaries), the error carries the length and
\* the byte of the first such run; otherwise it returns the NUM_WT blocks of
\* WT_DATA_LENGTH bytes in image order.
C8_RunLengthCheck ==
    (ret.op = "read_wt_data"
        /\ Len(image) >= WT_DATA_OFFSET + WT_DATA_LENGTH * NUM_WT) =>
        LET region == SubSeq(image, WT_DATA_OFFSET + 1,
                             WT_DATA_OFFSET + WT_DATA_LENGTH * NUM_WT)
            long == {r \in MaximalRuns(region) : r[2] - r[1] + 1 > RUN_LIMIT}
        IN  /\ ret.kind \in {"ok", "SuspiciousDataError"}
            /\ (ret.kind = "SuspiciousDataError") <=> (long # {})
            /\ ret.kind = "SuspiciousDataError" =>
                   \E r \in long :
                       /\ \A q \in long : r[1] <= q[1]
                       /\ ret.length = r[2] - r[1] + 1
                       /\ ret.byte = region[r[1]]
            /\ ret.kind = "ok" =>
                   /\ Len(ret.value) = NUM_WT
                   /\ \A k \in 1..NUM_WT :
                          /\ Len(ret.value[k]) = WT_DATA_LENGTH
                          /\ \A i \in 1..WT_DATA_LENGTH :
                                 ret.value[k][i] =
                                     image[WT_DATA_OFFSET
                                           + (k - 1) * WT_DATA_LENGTH + i]

\* the run that is refused crosses the boundary between the first two
\* blocks and is one byte over the limit
C8_Witness ==
    /\ ret.op = "read_wt_data"
    /\ ret.kind = "SuspiciousDataError"
    /\ ret.length = RUN_LIMIT + 1
    /\ image[WT_DATA_OFFSET + WT_DATA_LENGTH] = 0
    /\ image[WT_DATA_OFFSET + WT_DATA_LENGTH + 1] = 0
    /\ image[WT_DATA_OFFSET + WT_DATA_LENGTH + 2] # 0

DS_STORE == <<46, 68, 83, 95, 83, 116, 111, 114, 101>>

keys(d) == [i \in 1..Len(d) |-> d[i][1]]
values(d) == [i \in 1..Len(d) |-> d[i][2]]
HasKey(d, k) == \E i \in 1..Len(d) : d[i][1] = k

\* d[k] = v: a key already there keeps its place and takes the new value
DictSet(d, k, v) ==
    IF HasKey(d, k)
    THEN [i \in 1..Len(d) |-> IF d[i][1] = k THEN <<k, v>> ELSE d[i]]
    ELSE Append(d, <<k, v>>)

\* index of the last x in s (0 when there is none)
LastIndexOf(s, x) ==
    IF \E i \in 1..Len(s) : s[i] = x
    THEN CHOOSE i \in 1..Len(s) : s[i] = x /\ \A j \in (i + 1)..Len(s) : s[j] # x
    ELSE 0

\* index of the first x in s (0 when there is none)
FirstIndexOf(s, x) ==
    IF \E i \in 1..Len(s) : s[i] = x
    THEN CHOOSE i \in 1..Len(s) : s[i] = x /\ \A j \in 1..(i - 1) : s[j] # x
    ELSE 0

\* os.path.splitext(p)[0]: cut at the last dot, unless only dots precede it
splitext(p) ==
    LET dot == LastIndexOf(p, 46)
    IN  IF dot > 0 /\ \E i \in 1..(dot - 1) : p[i] # 46
        THEN SubSeq(p, 1, dot - 1) ELSE p

\* the orders os.listdir may return the entries of a directory in
Listings(files) ==
    LET names == DOMAIN files
        n == Cardinality(names)
    IN  {l \in [1..n -> names] : \A i, j \in 1..n : i # j => l[i] # l[j]}

\* the loop over os.listdir(path) (lines 120-135)
RECURSIVE build_dict(_, _, _)
build_dict(listing, files, wavetables) ==
    IF listing = <<>> THEN [kind |-> "ok", value |-> wavetables]
    ELSE LET wt_file == Head(listing)
             name == splitext(wt_file)
             data == files[wt_file]
         IN  IF wt_file = DS_STORE
             THEN build_dict(Tail(listing), files, wavetables)
             ELSE IF HasKey(wavetables, name)
             THEN [kind |-> "DuplicateNameError", name |-> name]
             ELSE IF Len(data) # WT_DATA_LENGTH
             THEN [kind |-> "WrongSizeError", name |-> name,
                   expected |-> WT_DATA_LENGTH, got |-> Len(data)]
             ELSE build_dict(Tail(listing), files,
                             Append(wavetables, <<name, data>>))

\* str < str: code point by code point, a proper prefix first
StrLess(a, b) ==
    \E k \in 1..(Min(Len(a), Len(b)) + 1) :
        /\ \A j \in 1..(k - 1) : a[j] = b[j]
        /\ \/ k > Len(a) /\ k <= Len(b)
           \/ k <= Len(a) /\ k <= Len(b) /\ a[k] < b[k]

\* value of a string of decimal digits
RECURSIVE DigitsValue(_)
DigitsValue(s) ==
    IF s = <<>> THEN 0
    ELSE 10 * DigitsValue(SubSeq(s, 1, Len(s) - 1)) + (s[Len(s)] - 48)

\* int(s): blanks around an optionally signed string of decimal digits
int(s) ==
    LET t == strip(s)
        signed == t # <<>> /\ t[1] \in {43, 45}
        digits == IF signed THEN Tail(t) ELSE t
    IN  IF digits = <<>> \/ \E i \in 1..Len(digits) : digits[i] \notin 48..57
        THEN [kind |-> "ValueError"]
        ELSE [kind |-> "ok",
              value |-> IF signed /\ t[1] = 45 THEN 0 - DigitsValue(digits)
                        ELSE DigitsValue(digits)]

\* _get_index_from_filename(wt), wt a (name, data) item
get_index_from_filename(wt) ==
    LET name == wt[1]
        u == FirstIndexOf(name, 95)
    IN  IF u = 0 THEN [kind |-> "FormatError", name |-> name]
        ELSE int(SubSeq(name, 1, u - 1))

\* _get_name_from_filename(name)
get_name_from_filename(name) ==
    LET u == FirstIndexOf(name, 95)
    IN  IF u = 0 THEN [kind |-> "FormatError", name |-> name]
        ELSE [kind |-> "ok", value |-> strip(DropN(name, u))]

\* mutant: the names are compared as they are, blanks included
PlainKeyUnstripped(item) == item[1]

\* key=lambda item: item[0].strip()
PlainKey(item) == strip(item[1])

\* sorted(items, key=...): stable; less[i][j] tells whether the key of
\* item i is smaller than the key of item j
Sorted(items, less) ==
    LET n == Len(items)
        rank(i) ==
            Cardinality({j \in 1..n : less[j][i]})
            + Cardinality({j \in 1..(i - 1) : ~less[i][j] /\ ~less[j][i]})
            + 1
    IN  [r \in 1..n |-> items[CHOOSE i \in 1..n : rank(i) = r]]

\* the comparisons of the keys item[0].strip() of the items
PlainLess(items) ==
    [i \in 1..Len(items) |-> [j \in 1..Len(items) |->
        StrLess(PlainKey(items[i]), PlainKey(items[j]))]]

\* the comparisons of the keys _get_index_from_filename(item) of the items
IndexLess(items) ==
    [i \in 1..Len(items) |-> [j \in 1..Len(items) |->
        get_index_from_filename(items[i]).value
            < get_index_from_filename(items[j]).value]]

\* index of the first item whose sort key cannot be computed (0 if none)
RECURSIVE FirstBadIndex(_, _)
FirstBadIndex(items, k) ==
    IF k > Len(items) THEN 0
    ELSE IF get_index_from_filename(items[k]).kind # "ok" THEN k
    ELSE FirstBadIndex(items, k + 1)

\* the dict comprehension over the sorted items (lines 138 and 140)
RECURSIVE comprehension(_, _, _)
comprehension(items, is_prefixed, wavetables) ==
    IF items = <<>> THEN [kind |-> "ok", value |-> wavetables]
    ELSE LET name == Head(items)[1]
             data == Head(items)[2]
             user == IF is_prefixed THEN get_name_from_filename(name)
                     ELSE [kind |-> "ok", value |-> name]
             key == IF user.kind = "ok" THEN sanitize_name(user.value)
                    ELSE user
         IN  IF key.kind # "ok" THEN key
             ELSE comprehension(Tail(items), is_prefixed,
                                DictSet(wavetables, key.value, data))

\* read_wavetables_from_files with os.listdir returning listing
read_wavetables_from_files(dir, listing, is_prefixed) ==
    IF ~dir.exists THEN [kind |-> "DirectoryNotFoundError"]
    ELSE
    LET built == build_dict(listing, dir.files, <<>>)
    IN  IF built.kind # "ok" THEN built
        ELSE
        LET bad == IF is_prefixed THEN FirstBadIndex(built.value, 1) ELSE 0
        IN  IF bad # 0 THEN get_index_from_filename(built.value[bad])
            ELSE
            LET ordered == IF is_prefixed
                           THEN Sorted(built.value, IndexLess(built.value))
                           ELSE Sorted(built.value, PlainLess(built.value))
                wavetables == comprehension(ordered, is_prefixed, <<>>)
            IN  IF wavetables.kind # "ok" THEN wavetables
                ELSE IF Len(wavetables.value) # NUM_WT
                THEN [kind |-> "WrongCountError", expected |-> NUM_WT,
                      got |-> Len(wavetables.value)]
                ELSE wavetables

(***************************************************************************)
(* Directories the loader is tried on.                                     *)
(***************************************************************************)
\* a block of WT_DATA_LENGTH bytes without runs, different for each tag
Noise(tag) == [p \in 1..WT_DATA_LENGTH |-> 1 + ((16 * tag + p) % 200)]

\* wt1.raw, wt2.raw, " wt3", "A", "A ", 1abcdef, 2abcdef, wt1.wav and a-b
\* hold a block each; .DS_Store and "bad" do not hold WT_DATA_LENGTH bytes
PlainFiles ==
    (<<119, 116, 49, 46, 114, 97, 119>> :> Noise(1))
    @@ (<<119, 116, 50, 46, 114, 97, 119>> :> Noise(2))
    @@ (<<32, 119, 116, 51>> :> Noise(3))
    @@ (<<65>> :> Noise(4))
    @@ (<<65, 32>> :> Noise(5))
    @@ (<<49, 97, 98, 99, 100, 101, 102>> :> Noise(6))
    @@ (<<50, 97, 98, 99, 100, 101, 102>> :> Noise(7))
    @@ (<<119, 116, 49, 46, 119, 97, 118>> :> Noise(8))
    @@ (<<97, 45, 98>> :> Noise(9))
    @@ (DS_STORE :> <<0, 0, 0, 1>>)
    @@ (<<98, 97, 100>> :> SubSeq(Noise(10), 1, WT_DATA_LENGTH - 1))

\* 2_b, 10_c, "1_ a", 2_e, 03_d.raw, x_f, plain and 4_a-b
PrefixedFiles ==
    (<<50, 95, 98>> :> Noise(11))
    @@ (<<49, 48, 95, 99>> :> Noise(12))
    @@ (<<49, 95, 32, 97>> :> Noise(13))
    @@ (<<50, 95, 101>> :> Noise(14))
    @@ (<<48, 51, 95, 100, 46, 114, 97, 119>> :> Noise(15))
    @@ (<<120, 95, 102>> :> Noise(16))
    @@ (<<112, 108, 97, 105, 110>> :> Noise(17))
    @@ (<<52, 95, 97, 45, 98>> :> Noise(18))

MaxFiles == NUM_WT + 1

\* the directories holding at most MaxFiles of the files of pool
Dirs(pool) ==
    { [exists |-> TRUE, files |-> [f \in names |-> pool[f]]] :
        names \in {n \in SUBSET DOMAIN pool : Cardinality(n) <= MaxFiles} }

DirPool == Dirs(PlainFiles) \cup Dirs(PrefixedFiles) \cup {NoDir}

(***************************************************************************)
(* Specification of the loader: one directory, loaded again and again in   *)
(* either sort mode, os.listdir free to return the files in any order.     *)
(***************************************************************************)
InitLoad ==
    /\ image = <<>>
    /\ srcdir \in DirPool
    /\ dest = NoDir
    /\ wavs = NoDir
    /\ input = <<>>
    /\ hexfiles = <<>>
    /\ ret = Idle

Load(is_prefixed) ==
    /\ \E listing \in Listings(srcdir.files) :
           ret' = [op |-> "read_wavetables_from_files",
                   is_prefixed |-> is_prefixed]
                  @@ read_wavetables_from_files(srcdir, listing, is_prefixed)
    /\ UNCHANGED <<image, srcdir, dest, wavs, input, hexfiles>>

LoadPlain == Load(FALSE)

LoadPrefixed == Load(TRUE)

NextLoad == LoadPlain \/ LoadPrefixed

SpecLoad == InitLoad /\ [][NextLoad]_vars

(***************************************************************************)
(* Properties of the loader.                                               *)
(***************************************************************************)
Loaded(is_prefixed) ==
    ret.op = "read_wavetables_from_files" /\ ret.is_prefixed = is_prefixed

\* the files of the directory that are not OS artifacts
WtFiles == DOMAIN srcdir.files \ {DS_STORE}

Raw(f) == splitext(f)

AllRightSize == \A f \in WtFiles : Len(srcdir.files[f]) = WT_DATA_LENGTH

RawNamesDistinct == \A f, g \in WtFiles : f # g => Raw(f) # Raw(g)

\* <integer>_<name>
HasIndexPrefix(f) == get_index_from_filename(<<Raw(f), <<>>>>).kind = "ok"

\* the part of the file name the wavetable is named after
UserName(f, is_prefixed) ==
    IF is_prefixed THEN get_name_from_filename(Raw(f)).value ELSE Raw(f)

SanitizedName(f, is_prefixed) == sanitize_name(UserName(f, is_prefixed)).value

\* file g sorts strictly before file f
SortsBefore(g, f, is_prefixed) ==
    IF is_prefixed
    THEN get_index_from_filename(<<Raw(g), <<>>>>).value
         < get_index_from_filename(<<Raw(f), <<>>>>).value
    ELSE StrLess(Core(Raw(g)), Core(Raw(f)))

\* the result is the NUM_WT files in sort order, each under its own name
InSortOrder(is_prefixed) ==
    /\ ret.kind = "ok"
    /\ Len(ret.value) = NUM_WT
    /\ \E order \in [1..NUM_WT -> WtFiles] :
           /\ \A k \in 1..NUM_WT :
                  ret.value[k] = <<SanitizedName(order[k], is_prefixed),
                                   srcdir.files[order[k]]>>
           /\ \A k, l \in 1..NUM_WT :
                  k < l => /\ order[k] # order[l]
                           /\ ~SortsBefore(order[l], order[k], is_prefixed)

\* C3: loading fails with DuplicateNameError whenever two files with
\* distinct raw names get the same sanitized name, and a successful load
\* never leaves out the data of a file of the directory.
C3_DuplicateSanitizedNames ==
    (Loaded(FALSE) /\ srcdir.exists /\ AllRightSize /\ RawNamesDistinct
        /\ \A f \in WtFiles : OnlyAllowed(Raw(f))) =>
        /\ (\E f, g \in WtFiles :
                f # g /\ SanitizedName(f, FALSE) = SanitizedName(g, FALSE))
               => ret.kind = "DuplicateNameError"
        /\ ret.kind = "ok" =>
               \A f \in WtFiles :
                   \E k \in 1..Len(ret.value) :
                       ret.value[k][2] = srcdir.files[f]

\* C4: a directory of n right-sized files with pairwise distinct raw names
\* over the allowed characters fails to load with WrongCountError (expected
\* NUM_WT, got n) whenever n differs from NUM_WT, and loads only when
\* n = NUM_WT.
C4_WrongCount ==
    (Loaded(FALSE) /\ srcdir.exists /\ AllRightSize /\ RawNamesDistinct
        /\ \A f \in WtFiles : OnlyAllowed(Raw(f))) =>
        LET n == Cardinality(WtFiles)
        IN  /\ n # NUM_WT =>
                   /\ ret.kind = "WrongCountError"
                   /\ ret.expected = NUM_WT
                   /\ ret.got = n
            /\ ret.kind = "ok" => n = NUM_WT

\* C5 as stated: every directory of exactly NUM_WT right-sized files with
\* pairwise distinct raw names over the allowed characters loads, in either
\* sort mode, into NUM_WT entries in sort order, each file under its
\* sanitized name.
C5_AsStated ==
    \A is_prefixed \in BOOLEAN :
        (Loaded(is_prefixed) /\ srcdir.exists
            /\ Cardinality(DOMAIN srcdir.files) = NUM_WT
            /\ AllRightSize /\ RawNamesDistinct
            /\ \A f \in DOMAIN srcdir.files : OnlyAllowed(Raw(f)))
        => InSortOrder(is_prefixed)

\* C5, amended: a directory of exactly NUM_WT right-sized files whose names
\* (in prefix mode: each of the form <integer>_<name>, the <name> part) are
\* over the allowed characters and whose sanitized names are pairwise
\* distinct loads into NUM_WT entries, in ascending order of the trimmed
\* file name (of the integer prefix in prefix mode), each entry's key being
\* the sanitized name of the file whose data is its value.
C5_LoadOrder ==
    \A is_prefixed \in BOOLEAN :
        (/\ Loaded(is_prefixed)
         /\ srcdir.exists
         /\ DS_STORE \notin DOMAIN srcdir.files
         /\ Cardinality(DOMAIN srcdir.files) = NUM_WT
         /\ AllRightSize
         /\ RawNamesDistinct
         /\ is_prefixed => \A f \in WtFiles : HasIndexPrefix(f)
         /\ \A f \in WtFiles : OnlyAllowed(UserName(f, is_prefixed))
         /\ \A f, g \in WtFiles :
                f # g => SanitizedName(f, is_prefixed)
                         # SanitizedName(g, is_prefixed))
        => InSortOrder(is_prefixed)

\* " wt3" was loaded last although, blank included, it compares first
C5_Witness ==
    /\ Loaded(FALSE)
    /\ ret.kind = "ok"
    /\ <<32, 119, 116, 51>> \in DOMAIN srcdir.files
    /\ ret.value[NUM_WT][1] = <<32, 32, 32, 119, 116, 51>>

(***************************************************************************)
(* patch                                                                   *)
(***************************************************************************)
\* mutant: the data is written where the names ended, without the seek
patch_without_seek(dir, f, listing) ==
    LET size == check_image_size(f)
        data == read_wavetables_from_files(dir, listing, FALSE)
    IN  IF size.kind # "ok" THEN [ret |-> size, image |-> f]
        ELSE IF data.kind # "ok" THEN [ret |-> data, image |-> f]
        ELSE [ret |-> [kind |-> "ok", data |-> data.value],
              image |-> write(f, WT_NAME_OFFSET,
                              name_data(keys(data.value))
                              \o wt_data(values(data.value)))]

\* mutant: the image is opened with mode 'w+b', which empties it first
patch_truncating(dir, f, listing) ==
    LET size == check_image_size(f)
        data == read_wavetables_from_files(dir, listing, FALSE)
    IN  IF size.kind # "ok" THEN [ret |-> size, image |-> f]
        ELSE IF data.kind # "ok" THEN [ret |-> data, image |-> f]
        ELSE [ret |-> [kind |-> "ok", data |-> data.value],
              image |-> write(write(<<>>, WT_NAME_OFFSET,
                                    name_data(keys(data.value))),
                              WT_DATA_OFFSET, wt_data(values(data.value)))]

\* patch(source, destination) with os.listdir returning listing: the
\* outcome, the local variable data, and the image file afterwards
patch(dir, f, listing) ==
    LET size == check_image_size(f)
        data == read_wavetables_from_files(dir, listing, FALSE)
    IN  IF size.kind # "ok" THEN [ret |-> size, image |-> f]
        ELSE IF data.kind # "ok" THEN [ret |-> data, image |-> f]
        ELSE [ret |-> [kind |-> "ok", data |-> data.value],
              image |-> write(write(f, WT_NAME_OFFSET,
                                    name_data(keys(data.value))),
                              WT_DATA_OFFSET, wt_data(values(data.value)))]

(***************************************************************************)
(* extract                                                                 *)
(***************************************************************************)
Range(s) == {s[i] : i \in 1..Len(s)}

HexDigit(d) == IF d < 10 THEN 48 + d ELSE 87 + d

\* repr() of one byte inside a bytes literal quoted with quote
ReprByte(c, quote) ==
    IF c = quote \/ c = 92 THEN <<92, c>>
    ELSE IF c = 9 THEN <<92, 116>>
    ELSE IF c = 10 THEN <<92, 110>>
    ELSE IF c = 13 THEN <<92, 114>>
    ELSE IF c < 32 \/ c >= 127
    THEN <<92, 120, HexDigit(c \div 16), HexDigit(c % 16)>>
    ELSE <<c>>

RECURSIVE ReprBody(_, _)
ReprBody(b, quote) ==
    IF b = <<>> THEN <<>>
    ELSE ReprByte(Head(b), quote) \o ReprBody(Tail(b), quote)

\* "{}".format(name) for a bytes object: b'...' or b"..."
bytes_repr(b) ==
    LET quote == IF 39 \in Range(b) /\ 34 \notin Range(b) THEN 34 ELSE 39
    IN  <<98, quote>> \o ReprBody(b, quote) \o <<quote>>

\* bytes.decode(): UTF-8, without the checks for overlong forms and
\* surrogates
RECURSIVE decode(_)
decode(b) ==
    IF b = <<>> THEN [kind |-> "ok", value |-> <<>>]
    ELSE
    LET c == Head(b)
        n == IF c < 128 THEN 0
             ELSE IF c >= 194 /\ c <= 223 THEN 1
             ELSE IF c >= 224 /\ c <= 239 THEN 2
             ELSE IF c >= 240 /\ c <= 244 THEN 3
             ELSE 4
        lead == IF n = 0 THEN c ELSE IF n = 1 THEN c - 192
                ELSE IF n = 2 THEN c - 224 ELSE c - 240
    IN  IF n = 4 \/ Len(b) < n + 1
           \/ \E i \in 2..(n + 1) : b[i] < 128 \/ b[i] > 191
        THEN [kind |-> "UnicodeDecodeError"]
        ELSE
        LET rest == decode(DropN(b, n + 1))
            point == IF n = 0 THEN lead
                     ELSE IF n = 1 THEN lead * 64 + (b[2] - 128)
                     ELSE IF n = 2
                     THEN lead * 4096 + (b[2] - 128) * 64 + (b[3] - 128)
                     ELSE lead * 262144 + (b[2] - 128) * 4096
                          + (b[3] - 128) * 64 + (b[4] - 128)
        IN  IF rest.kind # "ok" THEN rest
            ELSE [kind |-> "ok", value |-> <<point>> \o rest.value]

\* n as k little-endian bytes
LittleEndian(n, k) == [i \in 1..k |-> (n \div (256 ^ (i - 1))) % 256]

\* the file wave.open(...) writes: mono, 2 bytes per sample, 44100 Hz
wav_file(frames) ==
    <<82, 73, 70, 70>> \o LittleEndian(36 + Len(frames), 4)
    \o <<87, 65, 86, 69, 102, 109, 116, 32>> \o LittleEndian(16, 4)
    \o LittleEndian(1, 2) \o LittleEndian(1, 2) \o LittleEndian(44100, 4)
    \o LittleEndian(88200, 4) \o LittleEndian(2, 2) \o LittleEndian(16, 2)
    \o <<100, 97, 116, 97>> \o LittleEndian(Len(frames), 4) \o frames

\* the loop over zip(names, tables) (lines 181-191), from item k on
RECURSIVE write_tables(_, _, _, _, _)
write_tables(names, tables, k, destination, test_wavs) ==
    IF k > Min(Len(names), Len(tables))
    THEN [ret |-> [kind |-> "ok"], dest |-> destination, wavs |-> test_wavs]
    ELSE
    LET name == names[k]
        table == tables[k]
        new_wav == bytes_repr(name) \o <<46, 119, 97, 118>>
        wavs_after == [test_wavs EXCEPT
                          !.files = (new_wav :> wav_file(table)) @@ @]
        decoded == decode(name)
    IN  IF ~test_wavs.exists \/ 47 \in Range(new_wav)
        THEN [ret |-> [kind |-> "IOError"], dest |-> destination,
              wavs |-> test_wavs]
        ELSE IF decoded.kind # "ok"
        THEN [ret |-> decoded, dest |-> destination, wavs |-> wavs_after]
        ELSE IF 0 \in Range(decoded.value)
        THEN [ret |-> [kind |-> "ValueError"], dest |-> destination,
              wavs |-> wavs_after]
        ELSE IF 47 \in Range(decoded.value)
        THEN [ret |-> [kind |-> "IOError"], dest |-> destination,
              wavs |-> wavs_after]
        ELSE write_tables(names, tables, k + 1,
                          [destination EXCEPT
                              !.files = (decoded.value \o <<46, 114, 97, 119>>
                                         :> table) @@ @],
                          wavs_after)

\* what extract does once the destination is known not to exist
extract_into_new(f, destination, test_wavs) ==
    LET made == [exists |-> TRUE, files |-> <<>>]
        names == read_wt_names(f)
        tables == read_wt_data(f)
    IN  IF names.kind # "ok"
        THEN [ret |-> names, dest |-> made, wavs |-> test_wavs]
        ELSE IF tables.kind # "ok"
        THEN [ret |-> tables, dest |-> made, wavs |-> test_wavs]
        ELSE IF ~(Len(names.value) = Len(tables.value)
                  /\ Len(tables.value) = NUM_WT)
        THEN [ret |-> [kind |-> "LengthMismatchError"], dest |-> made,
              wavs |-> test_wavs]
        ELSE write_tables(names.value, tables.value, 1, made, test_wavs)

\* mutant: an existing destination is written into
extract_overwriting(f, destination, test_wavs) ==
    IF check_image_size(f).kind # "ok"
    THEN [ret |-> check_image_size(f), dest |-> destination,
          wavs |-> test_wavs]
    ELSE LET done == extract_into_new(f, destination, test_wavs)
         IN  [done EXCEPT !.dest.files = @ @@ destination.files]

\* extract(source, destination): the outcome, the destination and the
\* test_wavs directory afterwards
extract(f, destination, test_wavs) ==
    IF check_image_size(f).kind # "ok"
    THEN [ret |-> check_image_size(f), dest |-> destination,
          wavs |-> test_wavs]
    ELSE IF destination.exists
    THEN [ret |-> [kind |-> "DestinationExistsError"], dest |-> destination,
          wavs |-> test_wavs]
    ELSE extract_into_new(f, destination, test_wavs)

(***************************************************************************)
(* The tool at work on a file system: a ROM image, a directory of          *)
(* wavetable files, an extraction destination and the test_wavs directory. *)
(***************************************************************************)
\* the file holding block k of a data region made of the given kinds
BlockFile(kinds, k) ==
    [i \in 1..WT_DATA_LENGTH |->
        BlockByte(kinds[k], i, (k - 1) * WT_DATA_LENGTH + i)]

\* the directory of files wt1, wt2, ... holding blocks of the given kinds
BlockDir(kinds) ==
    [exists |-> TRUE,
     files |-> [f \in {<<119, 116, 48 + k>> : k \in 1..Len(kinds)} |->
                   BlockFile(kinds, f[3] - 48)]]

FileKinds == {"noise", "flat", "tail"}

SourceDirs ==
    { BlockDir(kinds) : kinds \in [1..NUM_WT -> FileKinds] }
    \cup
    { BlockDir([k \in 1..n |-> "noise"]) : n \in {NUM_WT - 1, NUM_WT + 1} }
    \cup
    { [exists |-> TRUE,
       files |-> BlockDir([k \in 1..(NUM_WT - 1) |-> "noise"]).files
                 @@ extra] :
        extra \in { <<97, 45, 98>> :> Noise(9),
                    <<98, 97, 100>> :> SubSeq(Noise(10), 1, WT_DATA_LENGTH - 1),
                    <<32, 119, 116, 48, 46, 114, 97, 119>> :> Noise(3) } }
    \cup
    { [exists |-> TRUE,
       files |-> BlockDir([k \in 1..NUM_WT |-> "noise"]).files
                 @@ (DS_STORE :> <<0, 0, 0, 1>>)],
      NoDir }

\* records whose names are alike, or cannot be used as file names
OddRecords ==
    { [k \in 1..NUM_WT |-> FactoryRecords[1]],
      [k \in 1..NUM_WT |->
          IF k = NUM_WT THEN <<32, 32, 255, 0, 47, 39, 10, 32>>
          ELSE FactoryRecords[k]],
      [k \in 1..NUM_WT |->
          IF k = NUM_WT THEN <<32, 66, 97, 115, 105, 99, 49, 32>>
          ELSE FactoryRecords[k]] }

Images ==
    { MkImage(size, FactoryRecords, FactoryData) :
        size \in {IMAGE_SIZE_SHORT, IMAGE_SIZE_LONG, IMAGE_SIZE_SHORT + 1} }
    \cup
    { MkImage(IMAGE_SIZE_SHORT, records, FactoryData) :
        records \in OddRecords }
    \cup
    { MkImage(IMAGE_SIZE_SHORT, FactoryRecords,
              DataRegion([k \in 1..NUM_WT |-> "flat"])) }

Destinations ==
    { NoDir,
      [exists |-> TRUE,
       files |-> <<32, 32, 32, 119, 116, 49, 46, 114, 97, 119>> :> <<1, 2, 3>>] }

Init ==
    /\ image \in Images
    /\ srcdir \in SourceDirs
    /\ dest \in Destinations
    /\ wavs \in {NoDir, [exists |-> TRUE, files |-> <<>>]}
    /\ input = <<>>
    /\ hexfiles = <<>>
    /\ ret = Idle

Patch ==
    /\ \E listing \in Listings(srcdir.files) :
           LET done == patch(srcdir, image, listing)
           IN  /\ ret' = [op |-> "patch"] @@ done.ret
               /\ image' = done.image
    /\ UNCHANGED <<srcdir, dest, wavs, input, hexfiles>>

Extract ==
    /\ LET done == extract(image, dest, wavs)
       IN  /\ ret' = [op |-> "extract"] @@ done.ret
           /\ dest' = done.dest
           /\ wavs' = done.wavs
    /\ UNCHANGED <<image, srcdir, input, hexfiles>>

Next == Patch \/ Extract

Spec == Init /\ [][Next]_vars

(***************************************************************************)
(* Properties of patch and extract.                                        *)
(***************************************************************************)
Patched == ret.op = "patch" /\ ret.kind = "ok"

\* the directory holds exactly NUM_WT files of WT_DATA_LENGTH bytes each
FullDirectory ==
    /\ srcdir.exists
    /\ Cardinality(DOMAIN srcdir.files) = NUM_WT
    /\ \A f \in DOMAIN srcdir.files : Len(srcdir.files[f]) = WT_DATA_LENGTH

\* reading the image back gives the names and blocks patch loaded, which
\* are what loading the directory gives
ReadsBackWhatWasLoaded ==
    /\ \E listing \in Listings(srcdir.files) :
           read_wavetables_from_files(srcdir, listing, FALSE)
               = [kind |-> "ok", value |-> ret.data]
    /\ read_wt_names(image) = [kind |-> "ok", value |-> keys(ret.data)]
    /\ read_wt_data(image) = [kind |-> "ok", value |-> values(ret.data)]

\* C1 as stated: after patching an accepted-size image from a directory of
\* NUM_WT right-sized files that loads, read_wt_names and read_wt_data on
\* the image succeed and return the loaded names and blocks in the loaded
\* order, whatever bytes the blocks hold.
C1_AsStated == (Patched /\ FullDirectory) => ReadsBackWhatWasLoaded

\* C1, amended: the same, provided the loaded blocks, put end to end in the
\* loaded order, hold no run of one byte value longer than RUN_LIMIT; when
\* they do, read_wt_data refuses the patched image with SuspiciousDataError.
C1_RoundTrip ==
    (Patched /\ FullDirectory) =>
        IF \A r \in MaximalRuns(wt_data(values(ret.data))) :
               r[2] - r[1] + 1 <= RUN_LIMIT
        THEN ReadsBackWhatWasLoaded
        ELSE /\ read_wt_names(image) = [kind |-> "ok", value |-> keys(ret.data)]
             /\ read_wt_data(image).kind = "SuspiciousDataError"

\* a long image was patched with blocks the first of which ends in a run of
\* exactly RUN_LIMIT zeros, and reads back
C1_Witness ==
    /\ Patched
    /\ FullDirectory
    /\ Len(image) = IMAGE_SIZE_LONG
    /\ image[WT_DATA_OFFSET + WT_DATA_LENGTH] = 0
    /\ image[WT_DATA_OFFSET + WT_DATA_LENGTH - RUN_LIMIT] # 0
    /\ read_wt_data(image).kind = "ok"

\* C10: extract of an accepted-size image into a destination that already
\* exists fails with DestinationExistsError and leaves the destination and
\* every other file as they were.
C10_ExistingDestinationUntouched ==
    [][(ret'.op = "extract" /\ dest.exists
            /\ check_image_size(image).kind = "ok")
        => /\ ret'.kind = "DestinationExistsError"
           /\ dest' = dest
           /\ image' = image
           /\ srcdir' = srcdir
           /\ wavs' = wavs]_vars

\* extract was refused while the test_wavs directory was there to write to
C10_Witness ==
    /\ ret.op = "extract"
    /\ ret.kind = "DestinationExistsError"
    /\ dest.exists
    /\ DOMAIN dest.files # {}
    /\ wavs.exists

\* the last call was an extract that returned normally
Extracted == ret.op = "extract" /\ ret.kind = "ok"

\* the name of the file extract opens for the table named name
RawFileName(name) == decode(name).value \o <<46, 114, 97, 119>>

\* C11: after a successful extract the destination holds exactly NUM_WT
\* files, the i-th table of the image being the content of the file named
\* <i-th decoded name>.raw; no table is missing or overwritten by another.
C11_OneFilePerWavetable ==
    Extracted =>
        LET names == read_wt_names(image).value
            tables == read_wt_data(image).value
        IN  /\ Cardinality(DOMAIN dest.files) = NUM_WT
            /\ \A i \in 1..NUM_WT :
                   /\ RawFileName(names[i]) \in DOMAIN dest.files
                   /\ dest.files[RawFileName(names[i])] = tables[i]

\* C12: in sort-by-prefix mode, loading a directory (of right-sized files
\* with distinct raw names) fails with FormatError, and with no other kind
\* of error, whenever a file name is not of the form <integer>_<name> (no
\* underscore, or no integer before the first underscore); when it succeeds
\* every entry is a file's data under the sanitized trimmed <name> part of
\* its name, the integer being discarded.
C12_PrefixFormat ==
    (Loaded(TRUE) /\ srcdir.exists /\ AllRightSize /\ RawNamesDistinct) =>
        /\ (\E f \in WtFiles : ~HasIndexPrefix(f)) => ret.kind = "FormatError"
        /\ ret.kind = "ok" =>
               \A k \in 1..Len(ret.value) :
                   \E f \in WtFiles :
                       /\ HasIndexPrefix(f)
                       /\ ret.value[k][1] = SanitizedName(f, TRUE)
                       /\ ret.value[k][2] = srcdir.files[f]

(***************************************************************************)
(* derive_names: the export of the two regions as Intel HEX files.  A hex  *)
(* file is the sequence of its records.                                    *)
(***************************************************************************)
RECURSIVE Sum(_)
Sum(s) == IF s = <<>> THEN 0 ELSE Head(s) + Sum(Tail(s))

\* IntelHex().loadbin(fobj, offset=offset): the object's buffer, a byte for
\* each address from offset on
loadbin(data, offset) ==
    [a \in offset..(offset + Len(data) - 1) |-> data[a - offset + 1]]

\* one record of a hex file; the checksum makes the bytes of the record
\* (count, address, type, data, checksum) add up to 0 modulo 256
hex_record(type, addr, data) ==
    [type |-> type, addr |-> addr, data |-> data,
     checksum |-> (256 - ((Len(data) + (addr \div 256) + (addr % 256) + type
                           + Sum(data)) % 256)) % 256]

\* the records for the addresses cur..maxaddr of a gapless buffer: data
\* records (type 0) of at most 16 bytes that do not cross a 64K boundary,
\* after an extended linear address record (type 4) wherever the upper 16
\* bits of the address change, if any address needs more than 16 bits;
\* high is the upper part last written
RECURSIVE data_records(_, _, _, _)
data_records(buf, cur, maxaddr, high) ==
    IF cur > maxaddr THEN <<>>
    ELSE
    LET high_addr == cur \div 65536
        low_addr == cur % 65536
        chain_len == Min(16, Min(65536 - low_addr, maxaddr - cur + 1))
        need_offset_record == maxaddr > 65535 /\ high_addr > high
    IN  (IF need_offset_record
         THEN <<hex_record(4, 0, <<high_addr \div 256,
                                  high_addr % 256>>)>>
         ELSE <<>>)
        \o <<hex_record(0, low_addr,
                        [i \in 1..chain_len |-> buf[cur + i - 1]])>>
        \o data_records(buf, cur + chain_len, maxaddr,
                        IF need_offset_record THEN high_addr ELSE high)

\* IntelHex.write_hex_file(out_f) for the buffer loadbin(data, offset)
write_hex_file(data, offset) ==
    data_records(loadbin(data, offset), offset, offset + Len(data) - 1, -1)
    \o <<hex_record(1, 0, <<>>)>>

\* derive_names(source, is_prefixed) with os.listdir returning listing: the
\* outcome, and the files source + '_names.hex' and source + '_waves.hex'
\* among the hex files there were
derive_names(dir, listing, is_prefixed, files) ==
    LET data == read_wavetables_from_files(dir, listing, is_prefixed)
    IN  IF data.kind # "ok" THEN [ret |-> data, hexfiles |-> files]
        ELSE [ret |-> [kind |-> "ok", data |-> data.value],
              hexfiles |->
                  ("_waves.hex" :> write_hex_file(wt_data(values(data.value)),
                                                  WT_DATA_OFFSET))
                  @@ ("_names.hex" :>
                          write_hex_file(name_data(keys(data.value)),
                                         WT_NAME_OFFSET))
                  @@ files]

\* the --patch branch of the command line (line 303): the sortprefix
\* argument is not handed on
main_patch(sortprefix, dir, f, listing) == patch(dir, f, listing)

\* the --intelhex branch of the command line (line 306)
main_intelhex(sortprefix, dir, listing, files) ==
    derive_names(dir, listing, sortprefix, files)

(***************************************************************************)
(* Specification of the two commands that load a directory: an image of    *)
(* an accepted size and a directory, patch and the hex export run with or  *)
(* without --sortprefix.                                                   *)
(***************************************************************************)
\* wt1.raw, wt2.raw, " wt3", 10_wavea1, 2_waveb2, "1_ a" and x_f
ExportFiles ==
    (<<119, 116, 49, 46, 114, 97, 119>> :> Noise(1))
    @@ (<<119, 116, 50, 46, 114, 97, 119>> :> Noise(2))
    @@ (<<32, 119, 116, 51>> :> Noise(3))
    @@ (<<49, 48, 95, 119, 97, 118, 101, 97, 49>> :> Noise(4))
    @@ (<<50, 95, 119, 97, 118, 101, 98, 50>> :> Noise(5))
    @@ (<<49, 95, 32, 97>> :> Noise(6))
    @@ (<<120, 95, 102>> :> Noise(7))

InitExport ==
    /\ image \in { MkImage(size, FactoryRecords, FactoryData) :
                     size \in {IMAGE_SIZE_SHORT, IMAGE_SIZE_LONG} }
    /\ srcdir \in Dirs(ExportFiles) \cup {NoDir}
    /\ dest = NoDir
    /\ wavs = NoDir
    /\ input = <<>>
    /\ hexfiles = <<>>
    /\ ret = Idle

RunPatch ==
    /\ \E sortprefix \in BOOLEAN, listing \in Listings(srcdir.files) :
           LET done == main_patch(sortprefix, srcdir, image, listing)
           IN  /\ ret' = [op |-> "patch", sortprefix |-> sortprefix]
                         @@ done.ret
               /\ image' = done.image
    /\ UNCHANGED <<srcdir, dest, wavs, input, hexfiles>>

RunIntelHex ==
    /\ \E sortprefix \in BOOLEAN, listing \in Listings(srcdir.files) :
           LET done == main_intelhex(sortprefix, srcdir, listing, hexfiles)
           IN  /\ ret' = [op |-> "derive_names", sortprefix |-> sortprefix]
                         @@ done.ret
               /\ hexfiles' = done.hexfiles
    /\ UNCHANGED <<image, srcdir, dest, wavs, input>>

NextExport == RunPatch \/ RunIntelHex

SpecExport == InitExport /\ [][NextExport]_vars

\* the bytes a hex file puts at each address; high is the upper part of the
\* address in force
RECURSIVE HexBytes(_, _)
HexBytes(records, high) ==
    IF records = <<>> THEN <<>>
    ELSE LET r == Head(records)
         IN  IF r.type = 4
             THEN HexBytes(Tail(records), r.data[1] * 256 + r.data[2])
             ELSE IF r.type = 0
             THEN [a \in (high * 65536 + r.addr)
                         ..(high * 65536 + r.addr + Len(r.data) - 1) |->
                      r.data[a - high * 65536 - r.addr + 1]]
                  @@ HexBytes(Tail(records), high)
             ELSE HexBytes(Tail(records), high)

\* the bytes of file f at the addresses off .. off + n - 1
Region(f, off, n) == [a \in off..(off + n - 1) |-> f[a + 1]]

\* C13: whenever derive_names has written the hex files for a directory
\* with some setting of the prefix-sort flag, patch run on the same
\* directory with the same setting succeeds (for some order of the
\* directory listing) and leaves in the name region and the data region of
\* the image, byte for byte, what the two hex files hold at those addresses.
C13_HexMatchesPatch ==
    (ret.op = "derive_names" /\ ret.kind = "ok") =>
        \E listing \in Listings(srcdir.files) :
            LET done == main_patch(ret.sortprefix, srcdir, image, listing)
            IN  /\ done.ret.kind = "ok"
                /\ HexBytes(hexfiles["_names.hex"], 0)
                       = Region(done.image, WT_NAME_OFFSET,
                                NUM_WT * WT_NAME_LENGTH)
                /\ HexBytes(hexfiles["_waves.hex"], 0)
                       = Region(done.image, WT_DATA_OFFSET,
                                NUM_WT * WT_DATA_LENGTH)

\* the error kinds raised by the validation of the image and the directory
ValidationErrors ==
    {"BadImageSizeError", "TruncatedReadError", "FormatError",
     "SuspiciousDataError", "DirectoryNotFoundError", "WrongSizeError",
     "DuplicateNameError", "InvalidCharacterError", "WrongCountError"}

\* C14: a call of extract or patch that fails with a validation error
\* leaves every file and directory as it was before the call: no
\* destination directory or file is created, no byte of the image changes.
C14_NoPartialResults ==
    [][(ret'.op \in {"extract", "patch"} /\ ret'.kind \in ValidationErrors)
        => /\ image' = image
           /\ srcdir' = srcdir
           /\ dest' = dest
           /\ wavs' = wavs
           /\ hexfiles' = hexfiles]_vars

\* C15: if read_wt_data at offset i fails with the run-length error
\* carrying run length L, then at every offset i + k with
\* 1 <= k <= L - RUN_LIMIT - 1 it fails too, with the run-length error or
\* the short-read error: no offset the data location test skips could
\* have been read successfully.
C15_SkipAheadSound ==
    (ret.op = "read_wt_data_at" /\ ret.kind = "SuspiciousDataError") =>
        \A k \in 1..(ret.length - RUN_LIMIT - 1) :
            read_wt_data_at(image, ret.offset + k).kind
                \in {"SuspiciousDataError", "TruncatedReadError"}

\* a read before the data region found a run that lets the test skip at
\* least two offsets, the last of which is too close to the end of the file
C15_Witness ==
    /\ ret.op = "read_wt_data_at"
    /\ ret.kind = "SuspiciousDataError"
    /\ ret.offset < WT_DATA_OFFSET
    /\ ret.length >= RUN_LIMIT + 3
    /\ read_wt_data_at(image, ret.offset + 1).kind = "SuspiciousDataError"
    /\ read_wt_data_at(image, ret.offset + ret.length - RUN_LIMIT - 1).kind
           = "TruncatedReadError"

\* position i of the image (counted from 1) lies in the name region or in
\* the data region
InRegions(i) ==
    \/ i > WT_NAME_OFFSET /\ i <= WT_NAME_OFFSET + NUM_WT * WT_NAME_LENGTH
    \/ i > WT_DATA_OFFSET /\ i <= WT_DATA_OFFSET + NUM_WT * WT_DATA_LENGTH

\* the name region ends before the data region starts and the data region
\* ends inside the short image, which is smaller than the long one: in the
\* model and with the numbers of the source (0x0F0000, 128 * 8, 0x100000,
\* 128 * 8192, 0x200000, 0x800000)
RegionsFit ==
    /\ WT_NAME_OFFSET >= 0
    /\ WT_NAME_OFFSET + NUM_WT * WT_NAME_LENGTH <= WT_DATA_OFFSET
    /\ WT_DATA_OFFSET + NUM_WT * WT_DATA_LENGTH <= IMAGE_SIZE_SHORT
    /\ IMAGE_SIZE_SHORT <= IMAGE_SIZE_LONG
    /\ 983040 + 128 * 8 <= 1048576
    /\ 1048576 + 128 * 8192 <= 2097152
    /\ 2097152 <= 8388608

\* C16: every successful patch leaves the image with the length it had and
\* with every byte outside the name region and the data region unchanged;
\* the two regions are disjoint and lie inside both accepted image sizes,
\* and on an image that passes check_image_size neither read_wt_names nor
\* read_wt_data fails with the truncated-read error.
C16_PatchFrame ==
    /\ [][(ret'.op = "patch" /\ ret'.kind = "ok") =>
            /\ Len(image') = Len(image)
            /\ check_image_size(image').kind = "ok"
            /\ \A i \in 1..Len(image) : ~InRegions(i) => image'[i] = image[i]
         ]_vars
    /\ [](/\ RegionsFit
          /\ check_image_size(image).kind = "ok" =>
                 /\ read_wt_names(image).kind # "TruncatedReadError"
                 /\ read_wt_data(image).kind # "TruncatedReadError")

\* a long image was patched: its name and data regions hold what was
\* loaded, the first byte and the last byte before the data region are the
\* original ones
C16_Witness ==
    /\ Patched
    /\ Len(image) = IMAGE_SIZE_LONG
    /\ image # MkImage(IMAGE_SIZE_LONG, FactoryRecords, FactoryData)
    /\ read(image, WT_NAME_OFFSET, NUM_WT * WT_NAME_LENGTH)
           = name_data(keys(ret.data))
    /\ image[1] = MkImage(IMAGE_SIZE_LONG, FactoryRecords, FactoryData)[1]
    /\ image[WT_DATA_OFFSET]
           = MkImage(IMAGE_SIZE_LONG, FactoryRecords, FactoryData)[WT_DATA_OFFSET]
    /\ image[IMAGE_SIZE_LONG]
           = MkImage(IMAGE_SIZE_LONG, FactoryRecords, FactoryData)[IMAGE_SIZE_LONG]

\* C17: for the files of a directory and a sort mode, the outcome of
\* read_wavetables_from_files (success or the kind of error, the entries,
\* their order and the data under each name) is the same whatever the
\* order in which os.listdir returns the files.
C17_LoadDeterministic ==
    \A is_prefixed \in BOOLEAN :
        Loaded(is_prefixed) =>
            \A listing \in Listings(srcdir.files) :
                LET again == read_wavetables_from_files(srcdir, listing,
                                                        is_prefixed)
                IN  /\ again.kind = ret.kind
                    /\ again.kind = "ok" => again.value = ret.value

====
